---- MODULE Spec2Model ----
(***************************************************************************)
(* Model of src/blog_analysis_pipeline_new.py (class BlogAnalysisPipeline   *)
(* and main).  Spec is a run of main; SpecAnalysis, SpecRepeat, SpecLinks  *)
(* and SpecExtract call single methods on inputs drawn from bounded sets.  *)
(*                                                                         *)
(* Strings are abstracted by the attributes the code reads from them:      *)
(*   len    number of characters                                           *)
(*   ws     characters that re.sub(r'\s+', ' ', s).strip() removes         *)
(*   toks   the leading whitespace-delimited words (Vocab, WordList)       *)
(*   pad    number of further words, all of them the word Filler           *)
(*          (lowercase, alphabetic, neither a stop word nor containing a   *)
(*          tone keyword)                                                  *)
(*   sents  number of sentences sent_tokenize finds                        *)
(*   score  textstat.flesch_reading_ease, in thousandths                   *)
(*   src    the element of the page the string was read from               *)
(* Decimal results (round(x, 2)) are kept in hundredths.                   *)
(***************************************************************************)
EXTENDS Integers, Sequences, FiniteSets, TLC

VARIABLES
    nltk_data,      \* NLTK resources present on the machine
    self,           \* the fields __init__ sets: stop_words, sentiment_analyzer
    content_text,   \* argument of analyze_text_content / analyze_tone
    analysis_out,   \* value returned by analyze_text_content, or Pending
    tone_out,       \* value returned by analyze_tone, or NoLabel
    base_url,       \* argument of scrape_blog_links
    listing,        \* what the GET of base_url yields: status and hyperlinks
    links_out,      \* value returned by scrape_blog_links, or Pending
    response,       \* what the GET of an article URL yields
    article_out,    \* value returned by scrape_blog_content, or Pending
    pc,             \* position in main and in run_scraping_pipeline
    Companies,      \* rows of the Companies table
    company_urls,   \* value returned by get_company_urls
    ci,             \* index of the current company in company_urls
    li,             \* index of the current link in blog_links (links_out)
    Texts,          \* committed rows of the Texts table
    total_posts_scraped,
    ret,            \* value returned by run_scraping_pipeline
    attempts,       \* the scrape_blog_content calls made so far
    discovered,     \* the scrape_blog_links results so far, per company
    delay,          \* time slept since the last scrape_blog_content call
    sleeps,         \* number of time.sleep calls so far
    last_op,        \* the call made by the last step
    last_outcome,   \* how the last finished link ended
    insert_arg,     \* scraped_data of the last insert_text_data call
    earlier_call,   \* an earlier analysis call: its text, results and object state
    calls,          \* number of analysis calls made on the object so far
    connection,     \* self.connection: None, "open" or "closed"
    cursor,         \* self.cursor: None, "open" or "closed"
    tx,             \* rows executed in the open transaction, not yet committed
    Performance,    \* committed rows of the Performance table
    loading,        \* the CSV being loaded and the rows executed so far
    step_log,       \* the steps main has run, with what each reported
    closes,         \* number of close_connection calls
    exit_reason     \* how main left its try block

analysisVars == <<content_text, analysis_out, tone_out>>
linkVars == <<base_url, listing, links_out>>
extractVars == <<response, article_out>>
pipelineVars == <<pc, Companies, company_urls, ci, li, Texts, total_posts_scraped, ret,
                  attempts, discovered, delay, sleeps, last_op, last_outcome, insert_arg>>
repeatVars == <<earlier_call, calls>>
mainVars == <<connection, cursor, tx, Performance, loading, step_log, closes, exit_reason>>
vars == <<nltk_data, self, analysisVars, linkVars, extractVars, pipelineVars,
          repeatVars, mainVars>>

\* a call that has not returned yet
Pending == [pending |-> TRUE]
NoLabel == "pending"
None == "None"

\* ------------------------------------------------------------------ bounds
MaxToks == 2

\* ------------------------------------------------------- numeric helpers
Max(a, b) == IF a >= b THEN a ELSE b
Min(a, b) == IF a <= b THEN a ELSE b

\* Python 3 round(): nearest integer to n/d, ties to the even one (d > 0).
PyRound(n, d) ==
    LET q == n \div d
        r == n % d
    IN  IF 2 * r < d THEN q
        ELSE IF 2 * r > d THEN q + 1
        ELSE IF q % 2 = 0 THEN q ELSE q + 1

\* round(x, 2) of a value given in thousandths, result in hundredths.
Round2 == [x \in Int |-> PyRound(x, 10)]

\* --------------------------------------------------------------- the words
Vocab == {"Inspire", "expert", "should", "funny", "career", "data", "the", "2024"}

\* str.lower()
Lower(w) == IF w = "Inspire" THEN "inspire" ELSE w

\* str.isalpha()
IsAlpha(w) == w # "2024"

\* kw in w, for the lowercase words of the vocabulary
Contains(w, kw) ==
    \/ w = kw
    \/ w = "career" /\ kw = "care"

\* stopwords.words('english') restricted to the vocabulary, and the
\* hard-coded list used when the corpus cannot be loaded.
NltkStopWords == {"the", "should"}
FallbackStopWords == {"the"}

\* __init__: stop words and sentiment analyzer depend on the NLTK data.
PipelineInit(data) ==
    [stop_words |-> IF "stopwords" \in data THEN NltkStopWords
                    ELSE FallbackStopWords,
     sentiment_analyzer |-> IF "vader_lexicon" \in data THEN "vader" ELSE None]

\* ------------------------------------------------------------- the strings
Str(src, len, ws, toks, pad, sents, score) ==
    [src |-> src, len |-> len, ws |-> ws, toks |-> toks, pad |-> pad,
     sents |-> sents, score |-> score]

\* len(content_text.split())
WordCount(s) == Len(s.toks) + s.pad

\* kw in content_text.lower()
InLowerText(kw, s) == \E i \in 1..Len(s.toks) : Contains(Lower(s.toks[i]), kw)

\* ------------------------------------------------------------ analyze_tone
InspirationalWords == {"inspire", "motivate", "encourage", "dream", "vision"}
AuthoritativeWords == {"expert", "authority", "certified", "proven", "research"}
PersuasiveWords == {"convince", "persuade", "should", "must"}
HumorousWords == {"funny", "humor", "joke", "hilarious", "amusing"}
EmpatheticWords == {"understand", "empathy", "feel", "care", "support"}

AnyIn(words, s) == \E kw \in words : InLowerText(kw, s)

analyze_tone_swapped(obj, s) ==
    IF obj.sentiment_analyzer = None THEN "Informative"
    ELSE IF AnyIn(AuthoritativeWords, s) THEN "Authoritative"
    ELSE IF AnyIn(InspirationalWords, s) THEN "Inspirational"
    ELSE IF AnyIn(PersuasiveWords, s) THEN "Persuasive"
    ELSE IF AnyIn(HumorousWords, s) THEN "Humorous"
    ELSE IF AnyIn(EmpatheticWords, s) THEN "Empathetic"
    ELSE "Informative"

analyze_tone(obj, s) ==
    IF obj.sentiment_analyzer = None THEN "Informative"
    ELSE IF AnyIn(InspirationalWords, s) THEN "Inspirational"
    ELSE IF AnyIn(AuthoritativeWords, s) THEN "Authoritative"
    ELSE IF AnyIn(PersuasiveWords, s) THEN "Persuasive"
    ELSE IF AnyIn(HumorousWords, s) THEN "Humorous"
    ELSE IF AnyIn(EmpatheticWords, s) THEN "Empathetic"
    ELSE "Informative"

\* ---------------------------------------------------- analyze_text_content
WordsPerMinute == 200

\* max(1, round(word_count / 200))
ReadingTime(word_count) == Max(1, PyRound(word_count, WordsPerMinute))

\* the if / elif / else on readability_score (thousandths)
Complexity(readability_score) ==
    IF readability_score > 60000 THEN "Too Basic"
    ELSE IF readability_score >= 30000 THEN "Optimal"
    ELSE "Too Complex"

\* The words after the leading ones (s.pad of them) are all this word.
Filler == "lorem"

\* words = word_tokenize(content_text.lower()), then the filter
\* word.isalpha() and word not in self.stop_words (leading words only)
EligibleWords(obj, s) ==
    SelectSeq([i \in 1..Len(s.toks) |-> Lower(s.toks[i])],
              LAMBDA w : IsAlpha(w) /\ w \notin obj.stop_words)

\* word_freq[word] = word_freq.get(word, 0) + 1; a dict keeps its keys in
\* the order of their first insertion
Bump(freq, w) ==
    IF \E k \in 1..Len(freq) : freq[k].word = w
    THEN [k \in 1..Len(freq) |->
             IF freq[k].word = w
             THEN [word |-> w, count |-> freq[k].count + 1] ELSE freq[k]]
    ELSE Append(freq, [word |-> w, count |-> 1])

RECURSIVE WordFreqFrom(_, _)
WordFreqFrom(freq, words) ==
    IF words = <<>> THEN freq
    ELSE WordFreqFrom(Bump(freq, Head(words)), Tail(words))

\* word_freq.items() for the whole text
WordFreq(obj, s) ==
    LET leading == WordFreqFrom(<<>>, EligibleWords(obj, s))
    IN  IF s.pad > 0 THEN Append(leading, [word |-> Filler, count |-> s.pad])
        ELSE leading

InsertByCount_unstable(sorted, item) ==
    LET k == Cardinality({j \in 1..Len(sorted) : sorted[j].count > item.count})
    IN  SubSeq(sorted, 1, k) \o <<item>> \o SubSeq(sorted, k + 1, Len(sorted))

\* sorted(..., key=lambda x: x[1], reverse=True) is stable: an item goes
\* behind every earlier item whose count is not smaller
InsertByCount(sorted, item) ==
    LET k == Cardinality({j \in 1..Len(sorted) : sorted[j].count >= item.count})
    IN  SubSeq(sorted, 1, k) \o <<item>> \o SubSeq(sorted, k + 1, Len(sorted))

RECURSIVE SortedByCount(_)
SortedByCount(freq) ==
    IF freq = <<>> THEN <<>>
    ELSE InsertByCount(SortedByCount(SubSeq(freq, 1, Len(freq) - 1)), freq[Len(freq)])

TopWordsLimit == 10

\* [word for word, _ in top_words] with top_words = sorted(...)[:10]; the
\* joined string is kept as the list of its words, "" as the empty list
MostFrequentWords(obj, s) ==
    LET top_words == SubSeq(SortedByCount(WordFreq(obj, s)), 1,
                            Min(TopWordsLimit, Len(WordFreq(obj, s))))
    IN  [k \in 1..Len(top_words) |-> top_words[k].word]

\* the dictionary of the except branch
AnalysisDefaults ==
    [word_count |-> 0, avg_sentence_length |-> 0, avg_reading_time |-> 0,
     readability_score |-> 0, optimal_complexity |-> "Informative",
     tone_label |-> "Informative", most_frequent_words |-> <<>>]

\* sent_tokenize and word_tokenize raise LookupError without the punkt data;
\* the except branch then returns the defaults.
analyze_text_content(data, obj, s) ==
    IF "punkt" \notin data THEN AnalysisDefaults
    ELSE
        [word_count |-> WordCount(s),
         avg_sentence_length |->
             IF s.sents > 0 THEN PyRound(WordCount(s) * 100, s.sents) ELSE 0,
         avg_reading_time |-> ReadingTime(WordCount(s)),
         readability_score |-> Round2[s.score],
         optimal_complexity |-> Complexity(s.score),
         tone_label |-> analyze_tone(obj, s),
         most_frequent_words |-> MostFrequentWords(obj, s)]

\* ------------------------------------------------------- analysis inputs
RECURSIVE SeqsUpTo(_, _)
SeqsUpTo(S, n) ==
    IF n = 0 THEN {<<>>}
    ELSE LET shorter == SeqsUpTo(S, n - 1)
         IN  shorter \cup {Append(q, w) : q \in {p \in shorter : Len(p) = n - 1}, w \in S}

PadValues == {0, 1, 99, 100, 101, 300, 500, 1000}
ScoreValues == {-5000, 0, 29994, 29996, 30000, 45000, 60000, 60004, 60006, 100000}
NltkResources == {"punkt", "stopwords", "vader_lexicon"}

\* Texts of many distinct words: the first n words of WordList, the k-th
\* of them occurring Occurs(shape, k) times, written round by round (every
\* word once, then every word that occurs twice, ...), optionally behind
\* an opening of a stop word, a number and capitalised words.
MaxDistinct == 12
WordList == <<"alpha", "bravo", "charlie", "delta", "echo", "foxtrot", "golf",
              "hotel", "india", "juliet", "kilo", "lima", "mike", "november">>
Shapes == 1..3
MaxOccurs == 3
Occurs(shape, k) ==
    IF shape = 1 THEN 1
    ELSE IF shape = 2 THEN (k % 3) + 1
    ELSE IF k > TopWordsLimit THEN 2 ELSE 1

RECURSIVE Round(_, _, _, _)
Round(n, shape, r, k) ==
    IF k > n THEN <<>>
    ELSE (IF Occurs(shape, k) >= r THEN <<WordList[k]>> ELSE <<>>)
         \o Round(n, shape, r, k + 1)

RECURSIVE Rounds(_, _, _)
Rounds(n, shape, r) ==
    IF r > MaxOccurs THEN <<>>
    ELSE Round(n, shape, r, 1) \o Rounds(n, shape, r + 1)

Opening == <<"the", "2024", "Inspire", "should", "Inspire">>

FrequencyTexts ==
    {LET t == (IF opened THEN Opening ELSE <<>>) \o Rounds(n, shape, 1)
     IN  Str("arg", 6 * Len(t), 0, t, 0, Min(Len(t), 1), 45000) :
        n \in 0..MaxDistinct, shape \in Shapes, opened \in BOOLEAN}

\* texts varying in their words, texts varying in size and score, and
\* texts of many distinct words
AnalysisTexts ==
    {Str("arg", 6 * Len(t), 0, t, 0, Min(Len(t), 1), 45000) : t \in SeqsUpTo(Vocab, MaxToks)}
    \cup
    {Str("arg", 6 * p, 0, <<>>, p, Min(p, 1), sc) : p \in PadValues, sc \in ScoreValues}
    \cup
    FrequencyTexts


\* ------------------------------------------------------ scrape_blog_links
\* A URL is a host and a path; a path is a directory and a number.  A
\* hyperlink target (href) is relative to the base, absolute, empty, or
\* malformed ("http://[blog"), for which urljoin raises ValueError.
Url(host, dir, n) == [host |-> host, dir |-> dir, n |-> n]
Href(form, host, dir, n) == [form |-> form, host |-> host, dir |-> dir, n |-> n]

\* urljoin(base_url, href)
urljoin(base, href) ==
    IF href.form = "abs" THEN Url(href.host, href.dir, href.n)
    ELSE IF href.form = "rel" THEN Url(base.host, href.dir, href.n)
    ELSE base

UrljoinRaises(href) == href.form = "bad"

\* str.lower() of the parts of a URL
LowerPart(part) ==
    IF part = "/Blog/" THEN "/blog/"
    ELSE IF part = "Blog.co.com" THEN "blog.co.com"
    ELSE part

\* the indicators of the list in scrape_blog_links, and the (lowercase)
\* parts of a URL that contain one
Indicators == {"/blog/", "/post/", "/article/", "/news/", "/insights/",
               "blog", "post", "article", "news", "insights"}
PartHas(part, indicator) ==
    \/ part = "/blog/" /\ indicator \in {"/blog/", "blog"}
    \/ part = "/news/" /\ indicator \in {"/news/", "news"}
    \/ part = "blog.co.com" /\ indicator = "blog"

\* any(indicator in full_url.lower() for indicator in [...])
HasIndicator(url) ==
    \E indicator \in Indicators :
        \/ PartHas(LowerPart(url.host), indicator)
        \/ PartHas(LowerPart(url.dir), indicator)

\* the for loop over soup.find_all('a', href=True)
RECURSIVE CollectLinks(_, _)
CollectLinks(base, hrefs) ==
    IF hrefs = <<>> THEN <<>>
    ELSE LET href == Head(hrefs)
             rest == CollectLinks(base, Tail(hrefs))
         IN  IF href.form = "empty" THEN rest
             ELSE IF HasIndicator(urljoin(base, href))
                  THEN <<urljoin(base, href)>> \o rest
                  ELSE rest

RECURSIVE Dedup(_)
Dedup(q) ==
    IF q = <<>> THEN <<>>
    ELSE LET front == Dedup(SubSeq(q, 1, Len(q) - 1))
             last == q[Len(q)]
         IN  IF \E i \in 1..Len(front) : front[i] = last THEN front
             ELSE Append(front, last)

Rotate(q, r) ==
    IF q = <<>> THEN q
    ELSE [i \in 1..Len(q) |-> q[((i - 1 + r) % Len(q)) + 1]]

\* list(set(blog_links)): the distinct elements in an order the program does
\* not control; the orders considered are the rotations of first occurrence.
SetToList(q, order) == Rotate(Dedup(q), order)

LinkLimit == 20

\* blog_links[:20]
Truncate(q) == SubSeq(q, 1, Min(Len(q), LinkLimit))

\* scrape_blog_links: any exception (failed GET, bad status, ValueError of
\* urljoin) ends in the except branch, which returns [].
scrape_blog_links(base, page, order) ==
    IF page.status # "ok" THEN <<>>
    ELSE IF \E i \in 1..Len(page.hrefs) : UrljoinRaises(page.hrefs[i]) THEN <<>>
    ELSE Truncate(SetToList(CollectLinks(base, page.hrefs), order))

\* number of iteration orders of the set built from the page
SetOrders(base, page) ==
    IF page.status # "ok" \/ \E i \in 1..Len(page.hrefs) : UrljoinRaises(page.hrefs[i])
    THEN {0}
    ELSE 0..Max(0, Len(Dedup(CollectLinks(base, page.hrefs))) - 1)

\* --------------------------------------------------------- listing inputs
MaxPosts == 30
MaxRepeats == 2
MaxOthers == 2

BaseUrls == {Url("co.com", "/", 0), Url("Blog.co.com", "/", 0)}

\* a listing page with m post links (alternately relative and absolute,
\* some capitalised), d links repeating the first d in the other form,
\* x links to other pages, an empty href, and possibly a malformed one
PostHref(base, k) ==
    Href(IF k % 2 = 1 THEN "rel" ELSE "abs", base.host,
         IF k % 3 = 0 THEN "/Blog/" ELSE IF k % 5 = 0 THEN "/news/" ELSE "/blog/", k)
RepeatHref(base, k) ==
    [PostHref(base, k) EXCEPT !.form = IF k % 2 = 1 THEN "abs" ELSE "rel"]
OtherHref(base, k) == Href(IF k % 2 = 1 THEN "rel" ELSE "abs", "co.com", "/about/", k)

ListingPage(base, status, m, d, x, bad) ==
    [status |-> status,
     hrefs |-> [k \in 1..m |-> PostHref(base, k)]
               \o [k \in 1..d |-> RepeatHref(base, k)]
               \o [k \in 1..x |-> OtherHref(base, k)]
               \o <<Href("empty", "", "", 0)>>
               \o (IF bad THEN <<Href("bad", "[blog", "", 0)>> ELSE <<>>)]

ListingPages(base) ==
    {ListingPage(base, status, m, d, x, bad) :
        status \in {"ok", "error"}, m \in 0..MaxPosts,
        d \in 0..MaxRepeats, x \in 0..MaxOthers, bad \in BOOLEAN}

\* ---------------------------------------------------- scrape_blog_content
\* A page is what the GET of an article URL yields: a status, the first match
\* of each date pattern in str(soup), the text of the element each content
\* selector finds (get_text(separator=' ', strip=True)) and of <body>.
NoElem == [absent |-> TRUE]
NoMatch == [nomatch |-> TRUE]
NoDate == [nodate |-> TRUE]
NoArticle == [none |-> TRUE]

EmptyStr == Str("", 0, 0, <<>>, 0, 0, 0)

\* date_patterns, by the shape of what they match: \d{4}-\d{2}-\d{2},
\* \d{2}/\d{2}/\d{4}, \d{1,2}\s+Mon\s+\d{4}
date_patterns == <<"ymd", "mdy", "dmy">>

IsLeap(y) == (y % 4 = 0 /\ y % 100 # 0) \/ y % 400 = 0
DaysIn(y, m) ==
    IF m = 2 THEN (IF IsLeap(y) THEN 29 ELSE 28)
    ELSE IF m \in {4, 6, 9, 11} THEN 30 ELSE 31
ValidDate(y, m, d) == y \in 1..9999 /\ m \in 1..12 /\ d \in 1..DaysIn(y, m)

\* datetime.strptime(text, fmt).date() for fmt '%Y-%m-%d' ("ymd") and
\* '%m/%d/%Y' ("mdy"); NoDate stands for the ValueError.
strptime(match, fmt) ==
    IF match.form = fmt /\ ValidDate(match.y, match.m, match.d)
    THEN [y |-> match.y, m |-> match.m, d |-> match.d]
    ELSE NoDate

\* the nested try / except of the date loop: only two formats are tried
ParseDate(match) ==
    IF strptime(match, "ymd") # NoDate THEN strptime(match, "ymd")
    ELSE strptime(match, "mdy")

\* for pattern in date_patterns: ... break / continue
RECURSIVE FindDate(_, _)
FindDate(dates, patterns) ==
    IF patterns = <<>> THEN NoDate
    ELSE LET match == dates[Head(patterns)]
         IN  IF match # NoMatch /\ ParseDate(match) # NoDate THEN ParseDate(match)
             ELSE FindDate(dates, Tail(patterns))

\* date.today()
Today == [y |-> 2026, m |-> 11, d |-> 3]

PublicationDate(page) ==
    IF FindDate(page.dates, date_patterns) = NoDate THEN Today
    ELSE FindDate(page.dates, date_patterns)

content_selectors ==
    <<"article", ".post-content", ".article-content", ".entry-content",
      ".content", "main", ".main-content">>

SubstantialLen == 100
MinContentLen == 50

\* len(content_text) > 100 ends the selector loop
IsSubstantial(text) == text.len > SubstantialLen

\* for selector in content_selectors: every element found overwrites
\* content_text, a substantial one ends the loop
RECURSIVE SelectContent(_, _, _)
SelectContent(containers, selectors, text) ==
    IF selectors = <<>> THEN text
    ELSE LET elem == containers[Head(selectors)]
         IN  IF elem = NoElem THEN SelectContent(containers, Tail(selectors), text)
             ELSE IF IsSubstantial(elem) THEN elem
             ELSE SelectContent(containers, Tail(selectors), elem)

\* if len(content_text) < 100: body = soup.find('body'); if body: ...
NeedsBody(text) == text.len < SubstantialLen

BodyFallback(page, text) ==
    IF NeedsBody(text) /\ page.body # NoElem THEN page.body ELSE text

\* re.sub(r'\s+', ' ', content_text).strip()
Normalize(text) == [text EXCEPT !.len = text.len - text.ws, !.ws = 0]

\* if len(content_text) < 50: return None
IsTooShort_49(text) == text.len < MinContentLen - 1
IsTooShort(text) == text.len < MinContentLen

\* scrape_blog_content: None when the GET fails (except branch) or the text
\* is too short, else the dictionary (title, category and tags, which no
\* later step inspects, are left out).
scrape_blog_content(page) ==
    IF page.status # "ok" THEN NoArticle
    ELSE LET text == Normalize(BodyFallback(page,
                         SelectContent(page.containers, content_selectors, EmptyStr)))
         IN  IF IsTooShort(text) THEN NoArticle
             ELSE [publication_date |-> PublicationDate(page),
                   content_text |-> text]

\* -------------------------------------------------------- article inputs
MaxContainers == 2

Selectors == {content_selectors[i] : i \in 1..Len(content_selectors)}

\* <<len, ws>> of an element's text
ElemSizes == {<<40, 0>>, <<49, 0>>, <<50, 0>>, <<99, 0>>, <<100, 0>>,
              <<101, 0>>, <<120, 0>>, <<150, 110>>}
BodySizes == {<<40, 0>>, <<60, 0>>, <<130, 100>>, <<500, 20>>}

ElemText(src, size) ==
    Str(src, size[1], size[2], <<>>, (size[1] - size[2]) \div 6, 1, 45000)

ContainerChoices ==
    UNION {{[s \in Selectors |-> IF s \in P THEN ElemText(s, f[s]) ELSE NoElem] :
               f \in [P -> ElemSizes]} :
           P \in {Q \in SUBSET Selectors : Cardinality(Q) <= MaxContainers}}

BodyChoices == {NoElem} \cup {ElemText("body", size) : size \in BodySizes}

\* first match of each pattern: none, a calendar date, or digits that are not
DateMatches(pattern) ==
    {NoMatch} \cup
    (IF pattern = "ymd"
        THEN {[form |-> "ymd", y |-> 2024, m |-> 1, d |-> 15],
              [form |-> "ymd", y |-> 2023, m |-> 13, d |-> 45]}
     ELSE IF pattern = "mdy"
        THEN {[form |-> "mdy", y |-> 2022, m |-> 3, d |-> 7],
              [form |-> "mdy", y |-> 2022, m |-> 2, d |-> 30]}
     ELSE {[form |-> "dmy", y |-> 2021, m |-> 1, d |-> 5],
           [form |-> "dmy", y |-> 2021, m |-> 6, d |-> 31]})

NoDates == [p \in {"ymd", "mdy", "dmy"} |-> NoMatch]
DateChoices ==
    {[p \in {"ymd", "mdy", "dmy"} |-> IF p = "ymd" THEN a ELSE IF p = "mdy" THEN b ELSE c] :
        a \in DateMatches("ymd"), b \in DateMatches("mdy"), c \in DateMatches("dmy")}

Page(status, dates, containers, body) ==
    [status |-> status, dates |-> dates, containers |-> containers, body |-> body]

NoContainers == [s \in Selectors |-> NoElem]

\* pages varying in their structure, pages varying in their dates, and a
\* failed request
ArticlePages ==
    {Page("ok", NoDates, c, b) : c \in ContainerChoices, b \in BodyChoices}
    \cup
    {Page("ok", d, [NoContainers EXCEPT !["article"] = ElemText("article", size)],
          ElemText("body", <<500, 20>>)) : d \in DateChoices, size \in {<<40, 0>>, <<120, 0>>}}
    \cup
    {Page("error", NoDates, NoContainers, NoElem)}

ExtractIdle ==
    /\ response = Page("error", NoDates, NoContainers, NoElem)
    /\ article_out = Pending

LinksIdle ==
    /\ base_url = Url("co.com", "/", 0)
    /\ listing = ListingPage(base_url, "error", 0, 0, 0, FALSE)
    /\ links_out = Pending

AnalysisIdle ==
    /\ content_text = Str("arg", 0, 0, <<>>, 0, 0, 0)
    /\ analysis_out = Pending
    /\ tone_out = NoLabel

\* --------------------------------------------------- run_scraping_pipeline
MaxCompanies == 2
MaxPipelineLinks == 2

\* rows of the Companies table: (company_id, company_url)
CompanyRow(id) ==
    [company_id |-> id,
     company_url |-> IF id % 2 = 1 THEN Url("co.com", "/", 0) ELSE Url("Blog.co.com", "/", 0)]

CompanyTables == {[i \in 1..n |-> CompanyRow(i)] : n \in 0..MaxCompanies}

\* random.uniform(1, 3), in whole time units
PolitenessDelays_from_zero == 0..3
PolitenessDelays == 1..3

\* the listing pages and article pages the sites serve during a run
PipelineListings(base) ==
    {ListingPage(base, "ok", m, 1, 1, FALSE) : m \in 1..MaxPipelineLinks}
    \cup {ListingPage(base, "ok", 0, 0, 1, FALSE),
          ListingPage(base, "ok", 1, 0, 0, TRUE),
          ListingPage(base, "error", 0, 0, 0, FALSE)}

PipelinePages ==
    {Page("error", NoDates, NoContainers, NoElem)}
    \cup
    {Page("ok", NoDates, [NoContainers EXCEPT !["article"] = ElemText("article", size)], body) :
        size \in {<<49, 0>>, <<120, 0>>, <<150, 110>>}, body \in {NoElem}}
    \cup
    {Page("ok", NoDates, NoContainers, ElemText("body", <<40, 0>>))}

PipelineIdle ==
    /\ pc = "idle"
    /\ Companies = <<>>
    /\ company_urls = <<>>
    /\ ci = 0
    /\ li = 0
    /\ Texts = <<>>
    /\ total_posts_scraped = 0
    /\ ret = "running"
    /\ attempts = <<>>
    /\ discovered = <<>>
    /\ delay = 0
    /\ sleeps = 0
    /\ last_op = "none"
    /\ last_outcome = "none"
    /\ insert_arg = Pending

RepeatIdle ==
    /\ earlier_call = Pending
    /\ calls = 0

MainIdle ==
    /\ connection = None
    /\ cursor = None
    /\ tx = <<>>
    /\ Performance = <<>>
    /\ loading = Pending
    /\ step_log = <<>>
    /\ closes = 0
    /\ exit_reason = "none"

\* ========================================================= specifications
AnalysisInit ==
    /\ nltk_data \in SUBSET NltkResources
    /\ self = PipelineInit(nltk_data)
    /\ content_text \in AnalysisTexts
    /\ analysis_out = Pending
    /\ tone_out = NoLabel
    /\ LinksIdle
    /\ ExtractIdle
    /\ PipelineIdle
    /\ RepeatIdle
    /\ MainIdle

AnalyzeTextContent ==
    /\ analysis_out = Pending
    /\ analysis_out' = analyze_text_content(nltk_data, self, content_text)
    /\ UNCHANGED <<repeatVars, mainVars, nltk_data, self, content_text, tone_out, linkVars, extractVars, pipelineVars>>

AnalyzeTone ==
    /\ tone_out = NoLabel
    /\ tone_out' = analyze_tone(self, content_text)
    /\ UNCHANGED <<repeatVars, mainVars, nltk_data, self, content_text, analysis_out, linkVars, extractVars, pipelineVars>>

AnalysisNext == AnalyzeTextContent \/ AnalyzeTone

SpecAnalysis == AnalysisInit /\ [][AnalysisNext]_vars

\* ----------------------------------------- the same object, called again
\* Calls of analyze_text_content and analyze_tone follow one another on the
\* texts of RepeatTexts.  BlogAnalysisPipeline() may be constructed again in
\* between: its nltk.download calls can add resources, and the later calls
\* go to the new object or stay with the old one.
MaxCalls == 3
RepeatTexts ==
    {s \in AnalysisTexts : Len(s.toks) <= 1 /\ s.pad \in {0, 300} /\ s.score = 45000}

RepeatInit ==
    /\ nltk_data \in SUBSET NltkResources
    /\ self = PipelineInit(nltk_data)
    /\ AnalysisIdle
    /\ LinksIdle
    /\ ExtractIdle
    /\ PipelineIdle
    /\ RepeatIdle
    /\ MainIdle

Construct ==
    /\ \E data \in SUBSET NltkResources :
           /\ nltk_data \subseteq data
           /\ data # nltk_data
           /\ nltk_data' = data
           /\ self' \in {self, PipelineInit(data)}
    /\ UNCHANGED <<repeatVars, mainVars, analysisVars, linkVars, extractVars, pipelineVars>>

CallRecord(t, analysis, tone) ==
    [text |-> t, analysis |-> analysis, tone |-> tone,
     self |-> self, nltk_data |-> nltk_data, at |-> calls + 1]

Invoke_stale(t) ==
    LET tone == analyze_tone(self, IF calls > 0 THEN content_text ELSE t)
        analysis == [analyze_text_content(nltk_data, self, t) EXCEPT !.tone_label = tone]
    IN  /\ calls < MaxCalls
        /\ content_text' = t
        /\ analysis_out' = analysis
        /\ tone_out' = tone
        /\ calls' = calls + 1
        /\ earlier_call' \in
               IF earlier_call = Pending
               THEN {earlier_call, CallRecord(t, analysis, tone)}
               ELSE {earlier_call}
        /\ UNCHANGED <<mainVars, nltk_data, self, linkVars, extractVars, pipelineVars>>

\* analyze_text_content(t) and analyze_tone(t) on the current object; the
\* call may be kept as the earlier call that later ones are compared with
Invoke(t) ==
    LET tone == analyze_tone(self, t)
        analysis == analyze_text_content(nltk_data, self, t)
    IN  /\ calls < MaxCalls
        /\ content_text' = t
        /\ analysis_out' = analysis
        /\ tone_out' = tone
        /\ calls' = calls + 1
        /\ earlier_call' \in
               IF earlier_call = Pending
               THEN {earlier_call, CallRecord(t, analysis, tone)}
               ELSE {earlier_call}
        /\ UNCHANGED <<mainVars, nltk_data, self, linkVars, extractVars, pipelineVars>>

InvokeAny == \E t \in RepeatTexts : Invoke(t)

RepeatNext == Construct \/ InvokeAny

SpecRepeat == RepeatInit /\ [][RepeatNext]_vars


LinksInit ==
    /\ nltk_data = NltkResources
    /\ self = PipelineInit(nltk_data)
    /\ AnalysisIdle
    /\ base_url \in BaseUrls
    /\ listing \in {p \in ListingPages(base_url) : Len(p.hrefs) > 0}
    /\ links_out = Pending
    /\ ExtractIdle
    /\ PipelineIdle
    /\ RepeatIdle
    /\ MainIdle

ScrapeBlogLinks ==
    /\ links_out = Pending
    /\ \E order \in SetOrders(base_url, listing) :
           links_out' = [value |-> scrape_blog_links(base_url, listing, order)]
    /\ UNCHANGED <<repeatVars, mainVars, nltk_data, self, analysisVars, base_url, listing, extractVars, pipelineVars>>

LinksNext == ScrapeBlogLinks

SpecLinks == LinksInit /\ [][LinksNext]_vars

ExtractInit ==
    /\ nltk_data = NltkResources
    /\ self = PipelineInit(nltk_data)
    /\ AnalysisIdle
    /\ LinksIdle
    /\ response \in ArticlePages
    /\ article_out = Pending
    /\ PipelineIdle
    /\ RepeatIdle
    /\ MainIdle

ScrapeBlogContent ==
    /\ article_out = Pending
    /\ article_out' = scrape_blog_content(response)
    /\ UNCHANGED <<repeatVars, mainVars, nltk_data, self, analysisVars, linkVars, response, pipelineVars>>

ExtractNext == ScrapeBlogContent

SpecExtract == ExtractInit /\ [][ExtractNext]_vars

\* ---- the pipeline: one action per call made by run_scraping_pipeline

Init ==
    /\ nltk_data \in {NltkResources, {}}
    /\ self = PipelineInit(nltk_data)
    /\ AnalysisIdle
    /\ LinksIdle
    /\ ExtractIdle
    /\ pc = "connect_to_database"
    /\ Companies = <<>>
    /\ company_urls = <<>>
    /\ ci = 0
    /\ li = 0
    /\ Texts = <<>>
    /\ total_posts_scraped = 0
    /\ ret = "running"
    /\ attempts = <<>>
    /\ discovered = <<>>
    /\ delay = 0
    /\ sleeps = 0
    /\ last_op = "none"
    /\ last_outcome = "none"
    /\ insert_arg = Pending
    /\ RepeatIdle
    /\ MainIdle

\* return True at the end of run_scraping_pipeline
CompletionResult_needs_posts(total) == IF total > 0 THEN "True" ELSE "False"
CompletionResult(total) == "True"

\* the links loop has a further element; the outcome of the current link
\* plays no part (continue and the inner except both go on)
HasNextLink_abort(outcome) == li < Len(links_out.value) /\ outcome # "raised"
HasNextLink(outcome) == li < Len(links_out.value)

\* end of the company's links: next company, or the end of the function
NextCompany(total) ==
    IF ci < Len(company_urls)
    THEN /\ ci' = ci + 1
         /\ li' = 0
         /\ pc' = "discover"
         /\ ret' = ret
    ELSE /\ pc' = "returned"
         /\ ret' = CompletionResult(total)
         /\ UNCHANGED <<ci, li>>

\* end of one iteration of the links loop
NextLink(outcome, total) ==
    /\ last_outcome' = outcome
    /\ IF HasNextLink(outcome)
       THEN /\ li' = li + 1
            /\ pc' = "sleep"
            /\ UNCHANGED <<ci, ret>>
       ELSE NextCompany(total)

\* get_company_urls: the rows of Companies, or [] when the query fails
GetCompanyUrls ==
    /\ pc = "start"
    /\ \E rows \in {Companies, <<>>} :
           /\ company_urls' = rows
           /\ IF rows = <<>>
              THEN pc' = "returned" /\ ret' = "False" /\ ci' = ci
              ELSE pc' = "discover" /\ ret' = ret /\ ci' = 1
    /\ last_op' = "get_company_urls"
    /\ UNCHANGED <<repeatVars, mainVars, nltk_data, self, analysisVars, linkVars, extractVars, Companies,
                   li, Texts, total_posts_scraped, attempts, discovered, delay,
                   sleeps, last_outcome, insert_arg>>

\* blog_links = self.scrape_blog_links(company_url); if not blog_links: continue
DiscoverLinks ==
    /\ pc = "discover"
    /\ base_url' = company_urls[ci].company_url
    /\ \E pg \in PipelineListings(base_url') :
         \E order \in SetOrders(base_url', pg) :
           /\ listing' = pg
           /\ links_out' = [value |-> scrape_blog_links(base_url', pg, order)]
    /\ discovered' = Append(discovered,
                            [company_id |-> company_urls[ci].company_id,
                             links |-> links_out'.value])
    /\ last_op' = "scrape_blog_links"
    /\ IF links_out'.value = <<>>
       THEN NextCompany(total_posts_scraped)
       ELSE pc' = "sleep" /\ li' = 1 /\ UNCHANGED <<ci, ret>>
    /\ UNCHANGED <<repeatVars, mainVars, nltk_data, self, analysisVars, extractVars, Companies, company_urls,
                   Texts, total_posts_scraped, attempts, delay, sleeps,
                   last_outcome, insert_arg>>

\* time.sleep(random.uniform(1, 3))
Sleep ==
    /\ pc = "sleep"
    /\ \E d \in PolitenessDelays : delay' = delay + d
    /\ sleeps' = sleeps + 1
    /\ last_op' = "sleep"
    /\ pc' = "fetch"
    /\ UNCHANGED <<repeatVars, mainVars, nltk_data, self, analysisVars, linkVars, extractVars, Companies,
                   company_urls, ci, li, Texts, total_posts_scraped, ret, attempts,
                   discovered, last_outcome, insert_arg>>

\* scraped_data = self.scrape_blog_content(blog_url); if not scraped_data: continue
FetchArticle ==
    /\ pc = "fetch"
    /\ \E pg \in PipelinePages :
           /\ response' = pg
           /\ article_out' = scrape_blog_content(pg)
    /\ attempts' = Append(attempts, [company_id |-> company_urls[ci].company_id,
                                     url |-> links_out.value[li]])
    /\ last_op' = "scrape_blog_content"
    /\ delay' = 0
    /\ IF article_out' = NoArticle
       THEN NextLink("skipped", total_posts_scraped)
       ELSE pc' = "analyze" /\ UNCHANGED <<ci, li, ret, last_outcome>>
    /\ UNCHANGED <<repeatVars, mainVars, nltk_data, self, analysisVars, linkVars, Companies, company_urls,
                   Texts, total_posts_scraped, discovered, sleeps, insert_arg>>

\* analysis_data = self.analyze_text_content(scraped_data['content_text'])
AnalyzeArticle ==
    /\ pc = "analyze"
    /\ content_text' = article_out.content_text
    /\ analysis_out' = analyze_text_content(nltk_data, self, content_text')
    /\ last_op' = "analyze_text_content"
    /\ pc' = "insert"
    /\ UNCHANGED <<repeatVars, mainVars, nltk_data, self, tone_out, linkVars, extractVars, Companies,
                   company_urls, ci, li, Texts, total_posts_scraped, ret, attempts,
                   discovered, delay, sleeps, last_outcome, insert_arg>>

\* cursor.execute of an INSERT: the row is part of the open transaction
Executed(table, row) == [table |-> table, row |-> row]

RowsOf(pending, table) ==
    LET mine == SelectSeq(pending, LAMBDA e : e.table = table)
    IN  [k \in 1..Len(mine) |-> mine[k].row]

CommitTexts_missing(committed, pending) ==
    [table |-> committed, pending |-> pending]

\* self.connection.commit() in insert_text_data: the executed rows become
\* rows of Texts and the transaction ends
CommitTexts(committed, pending) ==
    [table |-> committed \o RowsOf(pending, "Texts"), pending |-> <<>>]

\* insert_text_data: INSERT and commit; on an error rollback and return False;
\* a rollback that raises too (connection lost) reaches the except of the loop
InsertText ==
    /\ pc = "insert"
    /\ insert_arg' = article_out
    /\ last_op' = "insert_text_data"
    /\ \E outcome \in {"inserted", "insert_failed", "raised"} :
           /\ IF outcome = "inserted"
              THEN LET row == [company_id |-> company_urls[ci].company_id,
                               scraped_data |-> article_out,
                               analysis_data |-> analysis_out]
                       done == CommitTexts(Texts, Append(tx, Executed("Texts", row)))
                   IN  /\ Texts' = done.table
                       /\ tx' = done.pending
                       /\ total_posts_scraped' = total_posts_scraped + 1
              ELSE /\ tx' = IF outcome = "insert_failed" THEN <<>> ELSE tx
                   /\ UNCHANGED <<Texts, total_posts_scraped>>
           /\ NextLink(outcome, total_posts_scraped')
    /\ UNCHANGED <<repeatVars, connection, cursor, Performance, loading, step_log,
                   closes, exit_reason, nltk_data, self, analysisVars, linkVars,
                   extractVars, Companies, company_urls, attempts, discovered,
                   delay, sleeps>>

\* ------------------------------------------------------------------- main
\* The steps of main in their order; pc holds the name of the step that runs
\* next ("start" .. "returned" inside run_scraping_pipeline), then "finally"
\* and "exit".
MainOrder == <<"connect_to_database", "create_tables", "load_companies_data",
               "run_scraping_pipeline", "load_performance_data">>
LoadSteps == {"load_companies_data", "load_performance_data"}
TableOf(step) == IF step = "load_companies_data" THEN "Companies" ELSE "Performance"
NextOf(step) == IF step = "load_companies_data" THEN "start" ELSE "finally"

callVars == <<analysisVars, linkVars, extractVars>>
localVars == <<company_urls, ci, li, total_posts_scraped, attempts, discovered,
               delay, sleeps, last_outcome, insert_arg>>
fixedVars == <<nltk_data, self, repeatVars>>

\* the local variables of run_scraping_pipeline, and the arguments and
\* results of the calls it made, end with the call
DropLocals ==
    /\ content_text' = Str("arg", 0, 0, <<>>, 0, 0, 0)
    /\ analysis_out' = Pending
    /\ tone_out' = NoLabel
    /\ base_url' = Url("co.com", "/", 0)
    /\ listing' = ListingPage(base_url', "error", 0, 0, 0, FALSE)
    /\ links_out' = Pending
    /\ response' = Page("error", NoDates, NoContainers, NoElem)
    /\ article_out' = Pending
    /\ company_urls' = <<>>
    /\ ci' = 0
    /\ li' = 0
    /\ total_posts_scraped' = 0
    /\ attempts' = <<>>
    /\ discovered' = <<>>
    /\ delay' = 0
    /\ sleeps' = 0
    /\ last_outcome' = "none"
    /\ insert_arg' = Pending

AfterStep_ignore(ok, next) == next

\* if not pipeline.<step>(): logger.error(...); return -- the finally clause
\* runs on the way out
AfterStep(ok, next) == IF ok THEN next ELSE "finally"

Logged(step, result) == Append(step_log, [step |-> step, result |-> result])

\* connect_to_database: psycopg2.connect, then connection.cursor(); either
\* may raise, and the method then returns False
ConnectToDatabase ==
    /\ pc = "connect_to_database"
    /\ \E outcome \in {"connected", "connect_failed", "cursor_failed"} :
           /\ connection' = IF outcome = "connect_failed" THEN None ELSE "open"
           /\ cursor' = IF outcome = "connected" THEN "open" ELSE None
           /\ step_log' = Logged(pc, IF outcome = "connected" THEN "True" ELSE "False")
           /\ pc' = AfterStep(outcome = "connected", "create_tables")
           /\ exit_reason' = IF outcome = "connected" THEN exit_reason ELSE "step_failed"
    /\ last_op' = "connect_to_database"
    /\ UNCHANGED <<fixedVars, callVars, localVars, Companies, Texts, ret, tx,
                   Performance, loading, closes>>

\* create_tables: three CREATE TABLE IF NOT EXISTS and a commit; on an error
\* rollback and return False; a rollback that raises reaches main's except
CreateTables ==
    /\ pc = "create_tables"
    /\ \E outcome \in {"True", "False", "raised"} :
           /\ step_log' = Logged(pc, outcome)
           /\ pc' = IF outcome = "raised" THEN "finally"
                    ELSE AfterStep(outcome = "True", "load_companies_data")
           /\ exit_reason' = IF outcome = "True" THEN exit_reason
                             ELSE IF outcome = "False" THEN "step_failed"
                             ELSE "exception"
    /\ last_op' = "create_tables"
    /\ UNCHANGED <<fixedVars, callVars, localVars, Companies, Texts, ret, connection,
                   cursor, tx, Performance, loading, closes>>

\* the rows of companies.csv and performance.csv; int(row[...]) raises for
\* a malformed row
BadRow == [malformed |-> TRUE]
MissingFile == [missing |-> TRUE]
MaxPerformanceRows == 2

InsertAt(rows, k, row) == SubSeq(rows, 1, k - 1) \o <<row>> \o SubSeq(rows, k, Len(rows))
WithBadRow(tables) ==
    UNION {{InsertAt(t, k, BadRow) : k \in 1..(Len(t) + 1)} : t \in tables}

PerformanceRow(metrics_id, text_id) == [metrics_id |-> metrics_id, text_id |-> text_id]
PerformanceTables == {[i \in 1..n |-> PerformanceRow(i, i)] : n \in 0..MaxPerformanceRows}

Csvs(step) ==
    IF step = "load_companies_data"
    THEN CompanyTables \cup WithBadRow(CompanyTables)
         \cup {<<CompanyRow(1), CompanyRow(1)>>}
    ELSE PerformanceTables \cup WithBadRow(PerformanceTables)
         \cup {<<PerformanceRow(1, 1), PerformanceRow(1, 2)>>}

\* INSERT ... ON CONFLICT (key) DO UPDATE
KeyOf(table, row) == IF table = "Companies" THEN row.company_id ELSE row.metrics_id
Upsert(table, rows, row) ==
    IF \E k \in 1..Len(rows) : KeyOf(table, rows[k]) = KeyOf(table, row)
    THEN [k \in 1..Len(rows) |->
             IF KeyOf(table, rows[k]) = KeyOf(table, row) THEN row ELSE rows[k]]
    ELSE Append(rows, row)

RECURSIVE UpsertAll(_, _, _)
UpsertAll(table, rows, new) ==
    IF new = <<>> THEN rows
    ELSE UpsertAll(table, Upsert(table, rows, Head(new)), Tail(new))

\* FOREIGN KEY (text_id) REFERENCES Texts(text_id); text_id is the position
\* of the row in Texts
ForeignKeyHolds(table, row) == table = "Performance" => row.text_id \in 1..Len(Texts)

\* except Exception: logger.error(...); self.connection.rollback(); return
\* False -- a rollback that raises (connection lost) leaves the method with
\* the exception, which main's except Exception catches
LoadFailed(step) ==
    /\ \E rolled_back \in BOOLEAN :
           /\ tx' = IF rolled_back THEN <<>> ELSE tx
           /\ step_log' = Logged(step, IF rolled_back THEN "False" ELSE "raised")
           /\ exit_reason' = IF rolled_back THEN "step_failed" ELSE "exception"
           /\ pc' = IF rolled_back THEN AfterStep(FALSE, NextOf(step)) ELSE "finally"
    /\ loading' = Pending
    /\ UNCHANGED <<Companies, Performance>>

\* pd.read_csv(...)
ReadCsv ==
    /\ pc \in LoadSteps
    /\ loading = Pending
    /\ \E file \in {[rows |-> csv, done |-> 0] : csv \in Csvs(pc)} \cup {MissingFile} :
           IF file = MissingFile
           THEN LoadFailed(pc)
           ELSE /\ loading' = file
                /\ UNCHANGED <<pc, tx, step_log, exit_reason, Companies, Performance>>
    /\ last_op' = "read_csv"
    /\ UNCHANGED <<fixedVars, callVars, localVars, Texts, ret, connection, cursor, closes>>

\* one iteration of the for loop: the coercions of the row's values, then
\* cursor.execute of the upsert
ExecuteRow ==
    /\ pc \in LoadSteps
    /\ loading # Pending
    /\ loading.done < Len(loading.rows)
    /\ LET row == loading.rows[loading.done + 1]
       IN  IF row = BadRow
           THEN LoadFailed(pc)
           ELSE IF ~ForeignKeyHolds(TableOf(pc), row)
           THEN LoadFailed(pc)
           ELSE \E executed \in BOOLEAN :
                    IF executed
                    THEN /\ tx' = Append(tx, Executed(TableOf(pc), row))
                         /\ loading' = [loading EXCEPT !.done = @ + 1]
                         /\ UNCHANGED <<pc, step_log, exit_reason, Companies, Performance>>
                    ELSE LoadFailed(pc)
    /\ last_op' = "execute"
    /\ UNCHANGED <<fixedVars, callVars, localVars, Texts, ret, connection, cursor, closes>>

\* self.connection.commit() after the loop, and return True
CommitLoad ==
    /\ pc \in LoadSteps
    /\ loading # Pending
    /\ loading.done = Len(loading.rows)
    /\ \E committed \in BOOLEAN :
           IF committed
           THEN /\ Companies' = UpsertAll("Companies", Companies, RowsOf(tx, "Companies"))
                /\ Performance' = UpsertAll("Performance", Performance, RowsOf(tx, "Performance"))
                /\ tx' = <<>>
                /\ step_log' = Logged(pc, "True")
                /\ pc' = AfterStep(TRUE, NextOf(pc))
                /\ exit_reason' = IF pc = "load_performance_data" THEN "success"
                                  ELSE exit_reason
                /\ loading' = Pending
           ELSE LoadFailed(pc)
    /\ last_op' = "commit"
    /\ UNCHANGED <<fixedVars, callVars, localVars, Texts, ret, connection, cursor, closes>>

\* if not pipeline.run_scraping_pipeline(): ...; return
ReturnToMain ==
    /\ pc = "returned"
    /\ step_log' = Logged("run_scraping_pipeline", ret)
    /\ pc' = AfterStep(ret = "True", "load_performance_data")
    /\ exit_reason' = IF ret = "True" THEN exit_reason ELSE "step_failed"
    /\ DropLocals
    /\ last_op' = "run_scraping_pipeline"
    /\ UNCHANGED <<fixedVars, Companies, Texts, ret, connection, cursor, tx,
                   Performance, loading, closes>>

\* except KeyboardInterrupt: the interrupt arrives anywhere in the try block
\* and no method catches it
Interrupt ==
    /\ pc \notin {"finally", "exit", "idle"}
    /\ pc' = "finally"
    /\ exit_reason' = "interrupt"
    /\ loading' = Pending
    /\ DropLocals
    /\ last_op' = "KeyboardInterrupt"
    /\ UNCHANGED <<fixedVars, Companies, Texts, ret, connection, cursor, tx,
                   Performance, step_log, closes>>

Closed_unguarded(handle) == IF handle = "open" THEN "closed" ELSE "AttributeError"

\* if self.cursor: self.cursor.close() / if self.connection: self.connection.close()
Closed(handle) == IF handle = "open" THEN "closed" ELSE handle

\* finally: pipeline.close_connection(); closing the connection ends the
\* open transaction without committing it
CloseConnection ==
    /\ pc = "finally"
    /\ cursor' = Closed(cursor)
    /\ connection' = Closed(connection)
    /\ tx' = <<>>
    /\ closes' = closes + 1
    /\ pc' = "exit"
    /\ last_op' = "close_connection"
    /\ UNCHANGED <<fixedVars, callVars, localVars, Companies, Texts, ret,
                   Performance, loading, step_log, exit_reason>>

Next ==
    \/ ConnectToDatabase
    \/ CreateTables
    \/ ReadCsv
    \/ ExecuteRow
    \/ CommitLoad
    \/ GetCompanyUrls
    \/ DiscoverLinks
    \/ Sleep
    \/ FetchArticle
    \/ AnalyzeArticle
    \/ InsertText
    \/ ReturnToMain
    \/ Interrupt
    \/ CloseConnection

Spec == Init /\ [][Next]_vars

\* ================================================= properties of the analysis

AnalyzeReturned == analysis_out # Pending
ToneReturned == tone_out # NoLabel

\* C3: every result of analyze_text_content has avg_reading_time >= 1, and
\* the value is max(1, round(word_count / 200)) for the text's word count.
C3_ReadingTimeFloor ==
    AnalyzeReturned =>
        /\ analysis_out.avg_reading_time >= 1
        /\ analysis_out.avg_reading_time =
               Max(1, PyRound(WordCount(content_text), 200))

ComplexityLabels == {"Too Basic", "Optimal", "Too Complex"}

\* the label the claim assigns to a score given in hundredths
LabelOfScore(hundredths) ==
    CASE hundredths > 6000 -> "Too Basic"
      [] hundredths >= 3000 /\ hundredths <= 6000 -> "Optimal"
      [] hundredths < 3000 -> "Too Complex"

\* C4: in every result of analyze_text_content, optimal_complexity is one of
\* Too Basic / Optimal / Too Complex and is the one that the result's
\* readability_score determines (> 60, 30..60 inclusive, < 30).
C4_ComplexityPartition ==
    AnalyzeReturned =>
        /\ analysis_out.optimal_complexity \in ComplexityLabels
        /\ analysis_out.optimal_complexity = LabelOfScore(analysis_out.readability_score)

ToneLabels == {"Inspirational", "Authoritative", "Persuasive", "Humorous",
               "Empathetic", "Informative"}

\* the priority list of the tone rules, as the claim gives it
TonePriority ==
    << [label |-> "Inspirational", words |-> {"inspire", "motivate", "encourage", "dream", "vision"}],
       [label |-> "Authoritative", words |-> {"expert", "authority", "certified", "proven", "research"}],
       [label |-> "Persuasive", words |-> {"convince", "persuade", "should", "must"}],
       [label |-> "Humorous", words |-> {"funny", "humor", "joke", "hilarious", "amusing"}],
       [label |-> "Empathetic", words |-> {"understand", "empathy", "feel", "care", "support"}] >>

MatchingRules(s) ==
    {i \in 1..Len(TonePriority) : \E kw \in TonePriority[i].words : InLowerText(kw, s)}

FirstRuleLabel(s) ==
    IF MatchingRules(s) = {} THEN "Informative"
    ELSE TonePriority[CHOOSE i \in MatchingRules(s) : \A j \in MatchingRules(s) : i <= j].label

\* C5 as stated: for every text analyze_tone returns the label of the first
\* matching rule in the priority order, and Informative only when no rule
\* matches.
C5_TonePriorityAlways ==
    ToneReturned => tone_out = FirstRuleLabel(content_text)

\* C5 amended: analyze_tone returns one of the six labels; with a sentiment
\* analyzer it is the label of the first matching rule in the priority order
\* (Informative when none matches), and without one it is Informative
\* whatever the text contains.
C5_TonePriority ==
    ToneReturned =>
        /\ tone_out \in ToneLabels
        /\ self.sentiment_analyzer # None => tone_out = FirstRuleLabel(content_text)
        /\ self.sentiment_analyzer = None => tone_out = "Informative"

\* a text with an Inspirational and an Authoritative keyword was classified
C5_Witness ==
    /\ ToneReturned
    /\ self.sentiment_analyzer # None
    /\ Cardinality(MatchingRules(content_text)) >= 2
    /\ 1 \in MatchingRules(content_text)
    /\ tone_out = "Inspirational"


\* ============================================ properties of link discovery

LinksReturned == links_out # Pending

\* the distinct absolute URLs of the page's hyperlinks that contain a keyword
MatchingUrls(base, page) ==
    {urljoin(base, page.hrefs[i]) :
        i \in {j \in 1..Len(page.hrefs) :
                 /\ page.hrefs[j].form \in {"rel", "abs"}
                 /\ HasIndicator(urljoin(base, page.hrefs[j]))}}

NoDuplicates(q) == \A i, j \in 1..Len(q) : q[i] = q[j] => i = j

\* C6: for every listing page scrape_blog_links returns a duplicate-free list
\* of min(20, number of distinct matching absolute URLs) URLs, each the
\* resolution of a hyperlink of the page that contains a keyword.
C6_LinkDiscovery ==
    (LinksReturned /\ listing.status = "ok") =>
        /\ NoDuplicates(links_out.value)
        /\ Len(links_out.value) = Min(20, Cardinality(MatchingUrls(base_url, listing)))
        /\ \A i \in 1..Len(links_out.value) :
               links_out.value[i] \in MatchingUrls(base_url, listing)


\* ========================================== properties of the extraction

ArticleReturned == article_out # Pending /\ article_out # NoArticle

\* the date a match denotes
DateOf(match) == [y |-> match.y, m |-> match.m, d |-> match.d]

\* the match of the first pattern, in the fixed order, that matches at all
FirstMatch(dates) ==
    IF dates["ymd"] # NoMatch THEN dates["ymd"]
    ELSE IF dates["mdy"] # NoMatch THEN dates["mdy"]
    ELSE dates["dmy"]

\* C8: publication_date is supplied by the first of the three patterns
\* (YYYY-MM-DD, MM/DD/YYYY, D Month YYYY) that matches in the document, the
\* current date is used only when none matches, and it is never null.
C8_FirstDateMatchWins ==
    ArticleReturned =>
        /\ article_out.publication_date # NoDate
        /\ article_out.publication_date =
               IF FirstMatch(response.dates) = NoMatch THEN Today
               ELSE DateOf(FirstMatch(response.dates))

\* positions, in the fixed order, of the containers with more than 100
\* characters of text
Qualifying(pg) ==
    {i \in 1..Len(content_selectors) :
        /\ pg.containers[content_selectors[i]] # NoElem
        /\ pg.containers[content_selectors[i]].len > 100}

FirstQualifying(pg) ==
    pg.containers[content_selectors[
        CHOOSE i \in Qualifying(pg) : \A j \in Qualifying(pg) : i <= j]]

\* the text with its whitespace collapsed
Collapsed(text) == Str(text.src, text.len - text.ws, 0, text.toks, text.pad,
                       text.sents, text.score)

\* C9: the body text is the normalized text of the first container, in the
\* fixed selector order, with more than 100 characters; when no container
\* qualifies it is the text of the document body (of a page that has one).
C9_BodySelection ==
    ArticleReturned =>
        /\ Qualifying(response) # {} =>
               article_out.content_text = Collapsed(FirstQualifying(response))
        /\ (Qualifying(response) = {} /\ response.body # NoElem) =>
               article_out.content_text = Collapsed(response.body)


\* ============================================ properties of the pipeline

Returned == pc = "returned"

\* the links of all companies processed so far, in processing order
RECURSIVE Flatten(_)
Flatten(found) ==
    IF found = <<>> THEN <<>>
    ELSE Flatten(SubSeq(found, 1, Len(found) - 1))
         \o [k \in 1..Len(found[Len(found)].links) |->
                [company_id |-> found[Len(found)].company_id,
                 url |-> found[Len(found)].links[k]]]

IsPrefix(p, q) == Len(p) <= Len(q) /\ \A k \in 1..Len(p) : p[k] = q[k]

\* C1: every link returned by scrape_blog_links for every company returned
\* by get_company_urls is attempted exactly once, in order, whatever the
\* outcome of earlier links or companies: when the function returns, the
\* scrape_blog_content calls are exactly the discovered links of all the
\* companies, and until then they are a prefix of them.
C1_EveryLinkAttemptedOnce ==
    /\ IsPrefix(attempts, Flatten(discovered))
    /\ Returned =>
          /\ Len(discovered) = Len(company_urls)
          /\ \A k \in 1..Len(discovered) :
                 discovered[k].company_id = company_urls[k].company_id
          /\ attempts = Flatten(discovered)

\* a link was attempted right after a link of the same company whose insert
\* raised out of insert_text_data
C1_Witness ==
    /\ last_op = "scrape_blog_content"
    /\ li >= 2
    /\ last_outcome = "raised"
    /\ Len(attempts) >= 2
    /\ attempts[Len(attempts)].company_id = attempts[Len(attempts) - 1].company_id

\* the text the selectors and the body fallback leave, whitespace collapsed
FinalBodyLen(pg) ==
    LET chosen == BodyFallback(pg, SelectContent(pg.containers, content_selectors, EmptyStr))
    IN  chosen.len - chosen.ws

\* C2: scrape_blog_content never returns an article whose normalized
\* content_text is shorter than 50 characters (a page whose final body text
\* is shorter yields None), and neither analyze_text_content nor
\* insert_text_data is ever called with such a text.
C2_ValidityGate ==
    /\ (article_out # Pending /\ article_out # NoArticle) =>
           /\ article_out.content_text.len >= 50
           /\ article_out.content_text.ws = 0
    /\ (article_out # Pending /\ response.status = "ok" /\ FinalBodyLen(response) < 50) =>
           article_out = NoArticle
    /\ analysis_out # Pending => content_text.len >= 50
    /\ insert_arg # Pending => insert_arg.content_text.len >= 50
    /\ \A k \in 1..Len(Texts) : Texts[k].scraped_data.content_text.len >= 50

\* a page that was fetched and whose body text of 49 characters was rejected
C2_Witness ==
    /\ last_op = "scrape_blog_content"
    /\ response.status = "ok"
    /\ FinalBodyLen(response) = 49
    /\ article_out = NoArticle

\* C7: run_scraping_pipeline returns False when get_company_urls yields no
\* company and True whenever it yields at least one, whatever was
\* discovered, fetched, extracted or persisted.
C7_SuccessIffCompanies ==
    /\ Returned => ret \in {"True", "False"}
    /\ Returned => (ret = "True" <=> Len(company_urls) > 0)
    /\ pc \in {"start", "discover", "sleep", "fetch", "analyze", "insert"} => ret = "running"

\* the run returned True although no link was found and nothing persisted
C7_Witness ==
    /\ Returned
    /\ ret = "True"
    /\ Len(company_urls) > 0
    /\ attempts = <<>>
    /\ Texts = <<>>

\* C10: every scrape_blog_content call is immediately preceded by exactly one
\* time.sleep of 1 to 3 time units (also after a failed or skipped link and
\* across companies), and the calls happen one at a time: each step makes one
\* call, and a fetch is made only after the previous link was finished.
C10_DelayBeforeEveryFetch ==
    [][/\ Len(attempts') > Len(attempts) =>
              /\ last_op = "sleep"
              /\ delay >= 1 /\ delay <= 3
              /\ Len(attempts') = Len(attempts) + 1
       /\ sleeps' > sleeps => (sleeps' = sleeps + 1 /\ last_op # "sleep")
       /\ sleeps' = Len(attempts') + (IF pc' = "fetch" THEN 1 ELSE 0)
       /\ (last_op' = "scrape_blog_content") => pc \notin {"analyze", "insert"}
      ]_vars

\* the first link of a company was fetched, after exactly one sleep, following
\* the last link of another company
C10_Witness ==
    /\ last_op = "scrape_blog_content"
    /\ Len(attempts) >= 2
    /\ attempts[Len(attempts)].company_id # attempts[Len(attempts) - 1].company_id
    /\ sleeps = Len(attempts)
    /\ delay = 0

\* ======================================== properties of the frequent words

\* the lowercased alphabetic words of the text that are not stop words
Eligible(obj, s) ==
    {Lower(s.toks[i]) : i \in {j \in 1..Len(s.toks) :
        IsAlpha(Lower(s.toks[j])) /\ Lower(s.toks[j]) \notin obj.stop_words}}
    \cup (IF s.pad > 0 THEN {Filler} ELSE {})

\* how often a word occurs in the text, and where it occurs first
OccurrencesOf(w, s) ==
    Cardinality({i \in 1..Len(s.toks) : Lower(s.toks[i]) = w})
    + (IF w = Filler THEN s.pad ELSE 0)

FirstSeen(w, s) ==
    LET at == {i \in 1..Len(s.toks) : Lower(s.toks[i]) = w}
    IN  IF at = {} THEN Len(s.toks) + 1
        ELSE CHOOSE i \in at : \A j \in at : i <= j

\* C14: most_frequent_words lists at most 10 distinct words, each an
\* eligible word of the text (lowercased, alphabetic, not a stop word), in
\* the order of their occurrence counts descending, equal counts in the
\* order of first occurrence; no eligible word left out occurs more often
\* than a listed one, and the list is empty when the text has no eligible
\* word.
C14_MostFrequentWords ==
    AnalyzeReturned =>
        LET listed == analysis_out.most_frequent_words
            s == content_text
        IN  /\ Len(listed) <= 10
            /\ \A i, j \in 1..Len(listed) : i # j => listed[i] # listed[j]
            /\ \A i \in 1..Len(listed) : listed[i] \in Eligible(self, s)
            /\ \A i, j \in 1..Len(listed) : i < j =>
                   \/ OccurrencesOf(listed[i], s) > OccurrencesOf(listed[j], s)
                   \/ /\ OccurrencesOf(listed[i], s) = OccurrencesOf(listed[j], s)
                      /\ FirstSeen(listed[i], s) < FirstSeen(listed[j], s)
            /\ \A w \in Eligible(self, s) :
                   (\A i \in 1..Len(listed) : listed[i] # w) =>
                       \A i \in 1..Len(listed) :
                           OccurrencesOf(w, s) <= OccurrencesOf(listed[i], s)
            /\ Eligible(self, s) = {} => listed = <<>>

\* a text of more than ten eligible words was analysed: ten are listed, two
\* neighbours of the list occur equally often, the first and the last do
\* not, and a word was left out
C14_Witness ==
    /\ AnalyzeReturned
    /\ "punkt" \in nltk_data
    /\ Cardinality(Eligible(self, content_text)) > 10
    /\ Len(analysis_out.most_frequent_words) = 10
    /\ \E i \in 1..9 :
           OccurrencesOf(analysis_out.most_frequent_words[i], content_text)
           = OccurrencesOf(analysis_out.most_frequent_words[i + 1], content_text)
    /\ OccurrencesOf(analysis_out.most_frequent_words[1], content_text)
       > OccurrencesOf(analysis_out.most_frequent_words[10], content_text)

\* ============================================= properties of repeated calls

SameTextAgain ==
    /\ earlier_call # Pending
    /\ AnalyzeReturned
    /\ content_text = earlier_call.text

PipelinePcs == {"start", "discover", "sleep", "fetch", "analyze", "insert", "returned"}

\* the position in MainOrder of the step that is running, 0 after the steps
RunningStep ==
    IF pc \in PipelinePcs THEN 4
    ELSE IF \E k \in 1..Len(MainOrder) : MainOrder[k] = pc
    THEN CHOOSE k \in 1..Len(MainOrder) : MainOrder[k] = pc
    ELSE 0

CompanyIds == {Companies[k].company_id : k \in 1..Len(Companies)}
TextIds == 1..Len(Texts)

\* C12: main runs connect, create tables, load companies, scrape, load
\* performance in this order; a step runs only when every earlier step
\* reported success, and after the first step that did not, no further step
\* runs.  So every Text row, and every Text insert that is attempted,
\* references a committed Company row, and every Performance row, executed
\* or committed, references a committed Text row.
C12_StepOrder ==
    /\ Len(step_log) <= Len(MainOrder)
    /\ \A k \in 1..Len(step_log) : step_log[k].step = MainOrder[k]
    /\ \A k \in 1..(Len(step_log) - 1) : step_log[k].result = "True"
    /\ RunningStep # 0 =>
           /\ Len(step_log) = RunningStep - 1
           /\ \A k \in 1..Len(step_log) : step_log[k].result = "True"
    /\ (step_log # <<>> /\ step_log[Len(step_log)].result # "True") =>
           pc \in {"finally", "exit"}
    /\ \A k \in 1..Len(Texts) : Texts[k].company_id \in CompanyIds
    /\ pc \in PipelinePcs =>
           \A k \in 1..Len(company_urls) : company_urls[k].company_id \in CompanyIds
    /\ \A k \in 1..Len(Performance) : Performance[k].text_id \in TextIds
    /\ \A k \in 1..Len(tx) :
           tx[k].table = "Performance" => tx[k].row.text_id \in TextIds

\* all five steps ran and succeeded, with Text and Performance rows committed
C12_Witness ==
    /\ pc = "exit"
    /\ exit_reason = "success"
    /\ Len(step_log) = 5
    /\ Texts # <<>>
    /\ Performance # <<>>

\* ============================================ properties of the Texts table

\* the step is an insert_text_data call that returned True
InsertSucceeded ==
    /\ pc = "insert"
    /\ last_op' = "insert_text_data"
    /\ last_outcome' = "inserted"

\* C13: a successful insert_text_data adds exactly its one row to the
\* committed Texts rows and leaves no uncommitted work behind when the next
\* link is taken up; every other step (a failed insert and its rollback, a
\* load and its rollback, a failing step, an interrupt, close_connection)
\* leaves the committed Texts rows as they are.
C13_TextsAppendOnly ==
    [][/\ IsPrefix(Texts, Texts')
       /\ InsertSucceeded =>
              /\ Texts' = Append(Texts, [company_id |-> company_urls[ci].company_id,
                                         scraped_data |-> article_out,
                                         analysis_data |-> analysis_out])
              /\ tx' = <<>>
       /\ ~InsertSucceeded => Texts' = Texts]_vars

\* Text rows were committed, the performance load then failed and was rolled
\* back, and the connection was closed: the rows are still there
C13_Witness ==
    /\ pc = "exit"
    /\ Len(Texts) >= 2
    /\ Len(step_log) = 5
    /\ step_log[5].result = "False"

\* ================================================= properties of the loads

\* the step ends load_companies_data or load_performance_data
LoadEnded ==
    /\ pc \in LoadSteps
    /\ Len(step_log') = Len(step_log) + 1

\* C15: a load all of whose rows were executed and committed returns True
\* with every row of the file upserted into its table in one commit; a load
\* that fails (unreadable file, malformed row, database error) returns
\* False and leaves the committed tables as they were before the load.
C15_AllOrNothing ==
    [][LoadEnded =>
          LET result == step_log'[Len(step_log')].result
          IN  /\ result \in {"True", "False"}
              /\ result = "True" =>
                     /\ loading # Pending
                     /\ loading.done = Len(loading.rows)
                     /\ pc = "load_companies_data" =>
                            /\ Companies' = UpsertAll("Companies", Companies, loading.rows)
                            /\ Performance' = Performance
                     /\ pc = "load_performance_data" =>
                            /\ Performance' = UpsertAll("Performance", Performance, loading.rows)
                            /\ Companies' = Companies
                     /\ tx' = <<>>
              /\ result # "True" =>
                     /\ Companies' = Companies
                     /\ Performance' = Performance]_vars

\* ================================================ properties of the cleanup

ExitReasons == {"step_failed", "interrupt", "exception", "success"}

\* what close_connection must leave of a handle
CleanedUp(handle) == IF handle = "open" THEN "closed" ELSE None

\* C16: however main leaves its try block (a step reporting failure, a
\* keyboard interrupt, an exception, or success) it goes through the finally
\* clause, where close_connection runs exactly once and nothing runs after
\* it; close_connection closes the cursor and the connection that were
\* opened and skips those that are None, so it completes after a failed
\* connect too.
C16_CloseOnceLast ==
    /\ [](/\ closes = (IF pc = "exit" THEN 1 ELSE 0)
          /\ exit_reason \in ExitReasons <=> pc \in {"finally", "exit"}
          /\ pc = "finally" => ENABLED CloseConnection
          /\ pc = "exit" =>
                 /\ last_op = "close_connection"
                 /\ cursor \in {None, "closed"}
                 /\ connection \in {None, "closed"}
                 /\ tx = <<>>)
    /\ [][/\ pc # "exit"
          /\ pc' = "exit" => pc = "finally"
          /\ pc = "finally" =>
                 /\ pc' = "exit"
                 /\ cursor' = CleanedUp(cursor)
                 /\ connection' = CleanedUp(connection)
          /\ pc # "finally" => <<cursor', connection'>> \in {None, "open"} \X {None, "open"}]_vars

\* the connect failed, so there is no connection and no cursor, and the
\* cleanup ran
C16_Witness ==
    /\ pc = "exit"
    /\ closes = 1
    /\ step_log = <<[step |-> "connect_to_database", result |-> "False"]>>
    /\ connection = None
    /\ cursor = None

====
